---- MODULE Spec2Model ----
(***************************************************************************)
(* A model of HocrConverter.to_pdf (src/HocrConverter.py): the page loop,  *)
(* the choice of the image of every page, the resolution of the page       *)
(* geometry and the operations issued to the reportlab canvas.             *)
(*                                                                         *)
(* The hOCR tree is a sequence of ocr_page elements; an element carries an *)
(* optional title attribute and its span/p descendants.  A title is a      *)
(* sequence of clauses ("bbox 0 0 600 800", "file dpi.png", "ppageno 0"),  *)
(* which is what the two regular expressions of __init__ look for.         *)
(* A Python exception ends the call: pc = "failed", error names it.        *)
(* Floats are exact rationals <<numerator, denominator>>.                  *)
(* Fonts, colours, text content and the text origin are not modelled: no   *)
(* statement of lines 361-410 other than the divisions by ocr_dpi can      *)
(* raise or change the control flow.                                       *)
(***************************************************************************)
EXTENDS Integers, Sequences, FiniteSets, TLC

\* Bounds of the model: the number of ocr_page elements of the document and
\* the number of image files on the command line.
MaxPages == 3
MaxImages == 2
\* The same two bounds for the specification with fairness.
LiveMaxPages == 1
LiveMaxImages == 1

\* page_count is compared only with len(pages) and len(imageFileNames); once
\* it is above both, every further value behaves alike, so the model keeps
\* it at PageCountCap (and the canvas keeps its first PageCountCap pages).
PageCountCap == MaxPages + MaxImages + 2

\* Python's None, for the optional values of the model (all of them tuples).
None == <<>>
\* imageFileName = None (line 224); file names are strings.
NoName == "None"

\* reportlab.lib.units.inch, in points.
inch == 72
\* "assume OCR was done at 300 dpi" (line 313)
AssumedOcrDpi == 300
\* "Assuming 96 DPI." (line 325)
FallbackDpi == 96

---------------------------------------------------------------------------
\* Rationals n/d as pairs, for the floats of to_pdf.

Rat(n, d) == <<n, d>>
\* float == 0.0 (Python's `not width` for a float)
RatIsZero(r) == r[1] = 0
RatPositive(r) == r[1] * r[2] > 0
RatEq(r, s) == r[1] * s[2] = s[1] * r[2]
\* int / float (lines 313, 317): x / (n/d) = x*d / n
IntDivRat(x, r) == Rat(x * r[2], r[1])

---------------------------------------------------------------------------
\* The files Image.open can be asked for: pixel size and im.info['dpi']
\* (None when the file carries no resolution); an unreadable file makes
\* Image.open raise IOError.
Files ==
  [ f \in {"nodpi.png", "dpi.png", "bad.png"} |->
      CASE f = "nodpi.png" -> [readable |-> TRUE,  size |-> <<900, 1200>>, dpi |-> None]
        [] f = "dpi.png"   -> [readable |-> TRUE,  size |-> <<600, 800>>,  dpi |-> <<200, 200>>]
        [] f = "bad.png"   -> [readable |-> FALSE, size |-> <<0, 0>>,      dpi |-> None] ]

ImageFiles == DOMAIN Files

\* title attributes: absent, or a sequence of clauses.
NoTitle == [present |-> FALSE, clauses |-> <<>>]
Title(cs) == [present |-> TRUE, clauses |-> cs]
Bbox(a, b, c, d) == [key |-> "bbox", ints |-> <<a, b, c, d>>, path |-> ""]
FileRef(p) == [key |-> "file", ints |-> <<>>, path |-> p]
\* a clause neither pattern matches, e.g. "ppageno 0"
Other == [key |-> "ppageno", ints |-> <<0>>, path |-> ""]
\* "bbox 1 2 3": three numbers, the bbox pattern wants four
ShortBbox == [key |-> "bbox", ints |-> <<1, 2, 3>>, path |-> ""]

\* span and p elements below a page
Elem(tag, class, title) == [tag |-> tag, class |-> class, title |-> title]

\* ocr_page elements the documents of the model are made of.  Every child
\* element of a page is one of its span/p elements.
GoodPage ==
  [title |-> Title(<<Bbox(0, 0, 600, 800), Other>>),
   elements |-> <<Elem("span", "ocr_line", Title(<<Bbox(30, 60, 570, 90)>>)),
                  Elem("span", "ocrx_word", Title(<<Bbox(30, 60, 120, 90)>>)),
                  Elem("span", "ocr_cinfo", NoTitle)>>]
\* a page on which the OCR found nothing: a bbox, no child element
BlankPage ==
  [title |-> Title(<<Bbox(0, 0, 600, 800)>>), elements |-> <<>>]
\* a page whose title names its image and gives no bbox; words, no ocr_line
FileRefPage ==
  [title |-> Title(<<FileRef("nodpi.png")>>),
   elements |-> <<Elem("span", "ocrx_word", Title(<<Bbox(30, 60, 120, 90)>>))>>]
\* a page whose title matches neither pattern
BadTitlePage ==
  [title |-> Title(<<Other>>),
   elements |-> <<Elem("span", "ocr_line", Title(<<Bbox(30, 60, 570, 90)>>))>>]
\* a page with a paragraph whose title matches neither pattern
BadParTitlePage ==
  [title |-> Title(<<Bbox(0, 0, 600, 800)>>),
   elements |-> <<Elem("p", "ocr_par", Title(<<ShortBbox>>))>>]

\* The state holds the names of the elements, Element gives the element.
PageKinds == {"GoodPage", "BlankPage", "FileRefPage", "BadTitlePage", "BadParTitlePage"}
Element ==
  [ k \in PageKinds |->
      CASE k = "GoodPage" -> GoodPage
        [] k = "BlankPage" -> BlankPage
        [] k = "FileRefPage" -> FileRefPage
        [] k = "BadTitlePage" -> BadTitlePage
        [] k = "BadParTitlePage" -> BadParTitlePage ]

SeqsUpTo(S, n) == UNION {[1..k -> S] : k \in 0..n}

---------------------------------------------------------------------------
VARIABLES
  hocr,              \* self.hocr is not None
  pages,             \* the ocr_page elements collected at lines 202-207
  imageFileNames, withVisibleImage, noPictureFromHocr, multiplePages,
  hocrImageReference,
  page_count,
  page,              \* index into pages of the current page, 0 for None
  imageFileName,
  ocrwidth, ocrheight,
  im, im_ocr,        \* None or <<image>>
  width, height,     \* None or a rational
  ocr_dpi,           \* None or a pair of rationals
  skipped,           \* the page took the "Skipping." branch of line 303
  pdf,               \* the canvas: finished pages, current page, saves
  pc, error

args == <<hocr, pages, imageFileNames, withVisibleImage, noPictureFromHocr,
          multiplePages, hocrImageReference>>
geometry == <<ocrwidth, ocrheight, im, im_ocr, width, height, ocr_dpi, skipped>>
vars == <<args, page_count, page, imageFileName, geometry, pdf, pc, error>>

---------------------------------------------------------------------------
\* Helpers of the class.

\* The clauses of cs from the first one with the given key on (re.search
\* finds the leftmost match); a bbox clause matches with four numbers.
RECURSIVE FromFirstClause(_, _)
FromFirstClause(cs, key) ==
  IF cs = <<>> THEN <<>>
  ELSE IF Head(cs).key = key /\ (key = "bbox" => Len(Head(cs).ints) >= 4)
       THEN cs
       ELSE FromFirstClause(Tail(cs), key)

\* What 'file\s+(.*)' captures when clauses follow the file clause: the path
\* and the clauses, which together name no file.
RestOfTitle == "path; more clauses"

\* The three things parse_element_title returns.
NoResult == [kind |-> "None", bbox |-> <<0, 0, 0, 0>>, file |-> ""]
BboxResult(b) == [kind |-> "bbox", bbox |-> b, file |-> ""]
FileResult(p) == [kind |-> "file", bbox |-> <<0, 0, 0, 0>>, file |-> p]

\* parse_element_title: boxPattern 'bbox((\s+\d+){4})' is searched first,
\* filenamePattern 'file\s+(.*)' only when it found nothing; None when the
\* title is absent or matches neither.
parse_element_title(element) ==
  IF element.title.present
  THEN LET box == FromFirstClause(element.title.clauses, "bbox")
           fil == FromFirstClause(element.title.clauses, "file")
       IN IF box # <<>> THEN BboxResult(SubSeq(box[1].ints, 1, 4))
          ELSE IF fil # <<>>
               \* (.*) takes the rest of the title, further clauses included
               THEN FileResult(IF Len(fil) = 1 THEN fil[1].path ELSE RestOfTitle)
          ELSE NoResult
  ELSE NoResult

\* element_coordinates: parse_result.has_key("bbox") on the result of
\* parse_element_title; has_key on None raises AttributeError.
element_coordinates(element) ==
  LET parse_result == parse_element_title(element)
  IN [raises |-> parse_result.kind = "None",
      coords |-> IF parse_result.kind = "bbox" THEN parse_result.bbox
                 ELSE <<0, 0, 0, 0>>]

\* _setup_image: Image.open, then the size in inches when the file carries
\* a resolution, None otherwise.
_setup_image(name) ==
  LET f == IF name \in DOMAIN Files THEN Files[name] ELSE Files["bad.png"]
  IN [raises |-> ~f.readable,
      im     |-> <<[name |-> name, size |-> f.size]>>,
      width  |-> IF f.dpi # None THEN Rat(f.size[1], f.dpi[1]) ELSE None,
      height |-> IF f.dpi # None THEN Rat(f.size[2], f.dpi[2]) ELSE None]

Max(a, b) == IF a > b THEN a ELSE b
Min(a, b) == IF a < b THEN a ELSE b

\* The loop of get_ocr_text_extension over the span elements: acc is
\* (x_min, y_min, x_max, y_max); an ocr_line whose title gives no parse
\* result raises in element_coordinates.
RECURSIVE TextExtension(_, _)
TextExtension(spans, acc) ==
  IF spans = <<>> THEN [raises |-> FALSE, box |-> acc]
  ELSE LET line == Head(spans)
           r == element_coordinates(line)
           c == r.coords
       IN IF line.class # "ocr_line" THEN TextExtension(Tail(spans), acc)
          ELSE IF r.raises THEN [raises |-> TRUE, box |-> acc]
          ELSE TextExtension(Tail(spans),
                 << Min(acc[1], Min(c[1], c[3])), Min(acc[2], Min(c[2], c[4])),
                    Max(acc[3], Max(c[1], c[3])), Max(acc[4], Max(c[2], c[4])) >>)

IsSpan(e) == e.tag = "span"
IsP(e) == e.tag = "p"

\* get_ocr_text_extension(page), called with a page that is not None (so
\* self.hocr is set): page.findall(".//span")
get_ocr_text_extension(pg) ==
  TextExtension(SelectSeq(pg.elements, IsSpan), <<0, 0, 0, 0>>)

\* bool(page) for an ElementTree element: false for None and for an element
\* without child elements (Element.__len__ / __nonzero__).
Truthy(pgs, i) == i # 0 /\ Len(Element[pgs[i]].elements) # 0

---------------------------------------------------------------------------
\* to_pdf, lines 195-209: the canvas is created, the ocr_page elements are
\* collected, page_count = 0.  A call without hOCR file has no pages.
InitWith(maxPages, maxImages) ==
  /\ hocr \in BOOLEAN
  /\ pages \in (IF hocr THEN SeqsUpTo(PageKinds, maxPages) ELSE {<<>>})
  /\ imageFileNames \in SeqsUpTo(ImageFiles, maxImages)
  /\ withVisibleImage \in BOOLEAN
  /\ noPictureFromHocr \in BOOLEAN
  /\ multiplePages \in BOOLEAN
  /\ hocrImageReference \in BOOLEAN
  /\ page_count = 0
  /\ page = 0
  /\ imageFileName = NoName
  /\ ocrwidth = 0 /\ ocrheight = 0
  /\ im = None /\ im_ocr = None
  /\ width = None /\ height = None
  /\ ocr_dpi = None
  /\ skipped = FALSE
  /\ pdf = [pages |-> <<>>, cur |-> <<>>, saved |-> 0]
  /\ pc = "loop"
  /\ error = ""

Init == InitWith(MaxPages, MaxImages)

\* Lines 211-238: the head of the loop.  page_count is incremented, the
\* page is fetched, the loop is left in single-page mode after page 1, the
\* image of the page is chosen; when the images are used up the loop is
\* left if `not page`.
NextPage ==
  /\ pc = "loop"
  /\ LET n == IF page_count < PageCountCap THEN page_count + 1 ELSE page_count
         pg == IF Len(pages) >= n THEN n ELSE 0
     IN /\ page_count' = n
        /\ page' = pg
        /\ IF n > 1 /\ ~multiplePages
           THEN /\ pc' = "save"
                /\ imageFileName' = imageFileName
           ELSE IF imageFileNames # <<>>
           THEN IF Len(imageFileNames) >= n
                THEN /\ imageFileName' = imageFileNames[n]
                     /\ pc' = "resolve"
                ELSE /\ imageFileName' = imageFileNames[Len(imageFileNames)]
                     /\ pc' = IF ~Truthy(pages, pg) THEN "save" ELSE "resolve"
           ELSE /\ imageFileName' = NoName
                /\ pc' = "resolve"
  /\ UNCHANGED <<args, geometry, pdf, error>>

\* OcrExtent with the image of the page title forgotten: the text extent at
\* once.
OcrExtentTextOnly(extent, image, d, text) ==
  IF extent = 0 THEN text ELSE extent

\* Lines 289-299, for one dimension d (1 width, 2 height): an OCR extent of
\* zero is replaced by the size of the image the page title names, when that
\* image was loaded, and by the text extent otherwise.
OcrExtent(extent, image, d, text) ==
  IF extent = 0
  THEN (IF image # None THEN image[1].size[d] ELSE text)
  ELSE extent

\* `not width` for None or a float
Not(w) == w = None \/ RatIsZero(w)

\* Lines 244-301 for page pg (0 for None) and the chosen image name: the
\* values of the locals, and the exception the lines raise ("" for none).
\* stage is the number of the first statement group that raised:
\*   1 element_coordinates(page), 2 _setup_image of the command-line image,
\*   3 _setup_image of the image the page title names, 4 heigth_ocr (an
\*   unbound name, line 282), 5 get_ocr_text_extension, 6 nothing raised.
ResolveLocals(pg, name) ==
  LET pr == IF pg # 0 THEN parse_element_title(Element[pages[pg]]) ELSE NoResult
      ec == IF pg # 0 THEN element_coordinates(Element[pages[pg]])
            ELSE [raises |-> FALSE, coords |-> <<0, 0, 0, 0>>]
      coords == ec.coords
      cmd == IF name # NoName THEN _setup_image(name)
             ELSE [raises |-> FALSE, im |-> None, width |-> None, height |-> None]
      hasFile == pg # 0 /\ pr.kind = "file"
      fromHocr == ~noPictureFromHocr /\ name = NoName
      loadOcr == hasFile /\ (fromHocr \/ hocrImageReference)
      ocrimg == IF loadOcr THEN _setup_image(pr.file)
                ELSE [raises |-> FALSE, im |-> None, width |-> None, height |-> None]
      ext == IF pg # 0 THEN get_ocr_text_extension(Element[pages[pg]])
             ELSE [raises |-> FALSE, box |-> <<0, 0, 0, 0>>]
      stage == IF ec.raises THEN 1
               ELSE IF cmd.raises THEN 2
               ELSE IF ocrimg.raises THEN 3
               ELSE IF hasFile /\ fromHocr THEN 4
               ELSE IF ext.raises THEN 5
               ELSE 6
      w0 == coords[3] - coords[1]
      h0 == coords[4] - coords[2]
      imo == IF stage > 3 THEN ocrimg.im ELSE None
  IN [error |-> CASE stage = 1 -> "AttributeError"
                  [] stage = 2 -> "IOError"
                  [] stage = 3 -> "IOError"
                  [] stage = 4 -> "NameError"
                  [] stage = 5 -> "AttributeError"
                  [] stage = 6 -> "",
      ocrwidth  |-> IF stage = 1 THEN ocrwidth
                    ELSE IF stage = 6 /\ pg # 0 THEN OcrExtent(w0, imo, 1, ext.box[3])
                    ELSE w0,
      ocrheight |-> IF stage = 1 THEN ocrheight
                    ELSE IF stage = 6 /\ pg # 0 THEN OcrExtent(h0, imo, 2, ext.box[4])
                    ELSE h0,
      im     |-> IF stage <= 2 THEN im ELSE IF stage = 4 THEN ocrimg.im ELSE cmd.im,
      width  |-> IF stage <= 2 THEN width ELSE IF stage = 4 THEN ocrimg.width ELSE cmd.width,
      height |-> IF stage <= 2 THEN height ELSE cmd.height,
      im_ocr |-> IF stage <= 2 THEN im_ocr ELSE imo]

\* Lines 244-301 as a step of the call.
ResolveGeometry ==
  /\ pc = "resolve"
  /\ LET r == ResolveLocals(page, imageFileName)
     IN /\ ocrwidth' = r.ocrwidth
        /\ ocrheight' = r.ocrheight
        /\ im' = r.im
        /\ width' = r.width
        /\ height' = r.height
        /\ im_ocr' = r.im_ocr
        /\ error' = r.error
        /\ pc' = IF r.error = "" THEN "compose" ELSE "failed"
  /\ UNCHANGED <<args, page_count, page, imageFileName, ocr_dpi, skipped, pdf>>

\* The operations issued to the canvas.
SetPageSize(w, h) ==
  [op |-> "setPageSize", size |-> <<Rat(w[1] * inch, w[2]), Rat(h[1] * inch, h[2])>>,
   what |-> ""]
DrawInlineImage(image, w, h) ==
  [op |-> "drawInlineImage", size |-> <<Rat(w[1] * inch, w[2]), Rat(h[1] * inch, h[2])>>,
   what |-> image.name]
DrawText(class) == [op |-> "drawText", size |-> None, what |-> class]

TextClasses == {"ocr_line", "ocrx_word", "ocr_carea", "ocr_par"}

\* Lines 341-410: the loop over the text elements.  For an element of one
\* of the four classes: element_coordinates (AttributeError when the title
\* gives no parse result), then the divisions of the coordinates by ocr_dpi
\* (ZeroDivisionError for a zero), then drawText.  ops are the operations
\* issued so far.
RECURSIVE DrawElements(_, _, _)
DrawElements(elems, dpi, ops) ==
  IF elems = <<>> THEN [error |-> "", ops |-> ops]
  ELSE LET line == Head(elems)
           r == element_coordinates(line)
       IN IF line.class \notin TextClasses THEN DrawElements(Tail(elems), dpi, ops)
          ELSE IF r.raises THEN [error |-> "AttributeError", ops |-> ops]
          ELSE IF RatIsZero(dpi[1]) \/ RatIsZero(dpi[2])
               THEN [error |-> "ZeroDivisionError", ops |-> ops]
          ELSE DrawElements(Tail(elems), dpi, Append(ops, DrawText(line.class)))

\* The condition of line 303.
Skipping ==
  \/ (ocrwidth = 0 /\ (Not(width) \/ ~withVisibleImage))
  \/ (ocrheight = 0 /\ (Not(height) \/ ~withVisibleImage))

\* Lines 305-410: the else branch of line 303, for a page that is not
\* skipped.  stage is the first statement group that raised:
\*   1 ocr_dpi (line 317, a division by width or height),
\*   2 im.size with im = None (lines 325-326),
\*   3 page.findall with page = None (line 339),
\*   4 an element of the text loop, 5 nothing raised.
ComposeLocals ==
  LET assume == page # 0 /\ width = None
      w1 == IF assume THEN Rat(ocrwidth, AssumedOcrDpi) ELSE width
      h1 == IF assume THEN Rat(ocrheight, AssumedOcrDpi) ELSE height
      dpiRaises == page # 0 /\ (RatIsZero(w1) \/ RatIsZero(h1))
      dpi == IF page # 0 /\ ~dpiRaises
             THEN <<IntDivRat(ocrwidth, w1), IntDivRat(ocrheight, h1)>>
             ELSE ocr_dpi
      fallback == w1 = None
      fbRaises == fallback /\ im = None
      w2 == IF fallback /\ ~fbRaises THEN Rat(im[1].size[1], FallbackDpi) ELSE w1
      h2 == IF fallback /\ ~fbRaises THEN Rat(im[1].size[2], FallbackDpi) ELSE h1
      ops1 == <<SetPageSize(w2, h2)>>
      ops2 == IF withVisibleImage /\ im # None
              THEN Append(ops1, DrawInlineImage(im[1], w2, h2)) ELSE ops1
      findallRaises == hocr /\ page = 0
      text_elements == IF hocr /\ page # 0
                       THEN SelectSeq(Element[pages[page]].elements, IsSpan)
                            \o SelectSeq(Element[pages[page]].elements, IsP)
                       ELSE <<>>
      drawn == DrawElements(text_elements, dpi, ops2)
      stage == IF dpiRaises THEN 1
               ELSE IF fbRaises THEN 2
               ELSE IF findallRaises THEN 3
               ELSE IF drawn.error # "" THEN 4
               ELSE 5
  IN [error |-> CASE stage = 1 -> "ZeroDivisionError"
                  [] stage = 2 -> "AttributeError"
                  [] stage = 3 -> "AttributeError"
                  [] stage = 4 -> drawn.error
                  [] stage = 5 -> "",
      width  |-> IF stage = 1 THEN w1 ELSE IF stage = 2 THEN width ELSE w2,
      height |-> IF stage = 1 THEN h1 ELSE IF stage = 2 THEN height ELSE h2,
      ocr_dpi |-> dpi,
      ops |-> IF stage <= 2 THEN <<>> ELSE IF stage = 3 THEN ops2 ELSE drawn.ops]

\* Lines 303-410 as a step of the call: the page is skipped, or its size,
\* image and text are put on the canvas.
ComposePage ==
  /\ pc = "compose"
  /\ IF Skipping
     THEN /\ skipped' = TRUE
          /\ pc' = "showPage"
          /\ UNCHANGED <<width, height, ocr_dpi, pdf, error>>
     ELSE LET r == ComposeLocals
          IN /\ skipped' = FALSE
             /\ width' = r.width
             /\ height' = r.height
             /\ ocr_dpi' = r.ocr_dpi
             /\ pdf' = [pdf EXCEPT !.cur = pdf.cur \o r.ops]
             /\ error' = r.error
             /\ pc' = IF r.error = "" THEN "showPage" ELSE "failed"
  /\ UNCHANGED <<args, page_count, page, imageFileName, ocrwidth, ocrheight, im, im_ocr>>

\* ShowPage with pdf.save() moved into the loop.
ShowPageSaving ==
  /\ pc = "showPage"
  /\ pdf' = [pdf EXCEPT
               !.pages = IF Len(pdf.pages) < PageCountCap
                         THEN Append(pdf.pages,
                                [index |-> page_count, image |-> imageFileName,
                                 skipped |-> skipped, ops |-> pdf.cur])
                         ELSE pdf.pages,
               !.cur = <<>>,
               !.saved = pdf.saved + 1]
  /\ pc' = "loop"
  /\ UNCHANGED <<args, page_count, page, imageFileName, geometry, error>>

\* Line 413: pdf.showPage() ends the page, skipped or not, and the loop
\* goes on.
ShowPage ==
  /\ pc = "showPage"
  /\ pdf' = [pdf EXCEPT
               !.pages = IF Len(pdf.pages) < PageCountCap
                         THEN Append(pdf.pages,
                                [index |-> page_count, image |-> imageFileName,
                                 skipped |-> skipped, ops |-> pdf.cur])
                         ELSE pdf.pages,
               !.cur = <<>>]
  /\ pc' = "loop"
  /\ UNCHANGED <<args, page_count, page, imageFileName, geometry, error>>

\* Lines 415-417, after the loop: pdf.save().
Save ==
  /\ pc = "save"
  /\ pdf' = [pdf EXCEPT !.saved = pdf.saved + 1]
  /\ pc' = "done"
  /\ UNCHANGED <<args, page_count, page, imageFileName, geometry, error>>

Next ==
  \/ NextPage
  \/ ResolveGeometry
  \/ ComposePage
  \/ ShowPage
  \/ Save

Spec == Init /\ [][Next]_vars

\* The calls with the shorter inputs, for the termination property.
LiveInit == InitWith(LiveMaxPages, LiveMaxImages)

\* A call runs one statement after the other until it returns or raises.
FairSpec == LiveInit /\ [][Next]_vars /\ WF_vars(Next)

Terminated == pc \in {"done", "failed"}

---------------------------------------------------------------------------
\* What the claims speak of.

\* The current page and what its title and its lines give.
CurrentPage == Element[pages[page]]
PageBox == element_coordinates(CurrentPage).coords
TextBox == get_ocr_text_extension(CurrentPage).box
\* the body of the loop has been entered for the current page_count
InBody == pc \in {"resolve", "compose", "showPage"}
\* lines 244-301 have been run for the current page without raising
Resolved == pc \in {"compose", "showPage"}
\* a title that is present and matches neither pattern
Malformed(e) == e.title.present /\ parse_element_title(e).kind = "None"
HasMalformedTitle(pg) ==
  \/ Malformed(pg)
  \/ \E i \in 1..Len(pg.elements) :
       pg.elements[i].class \in TextClasses /\ Malformed(pg.elements[i])
HasTextElement(pg) ==
  \E i \in 1..Len(pg.elements) : pg.elements[i].class \in TextClasses

\* C1: with an hOCR document of N >= 1 ocr_page elements and exactly one
\* image, a call that saves the document has finished exactly one page when
\* multiplePages is off and exactly N pages when it is on, every one of
\* them with that one image.
C1_PagesFinished ==
  (pc = "done" /\ hocr /\ Len(pages) >= 1 /\ Len(imageFileNames) = 1)
  => /\ Len(pdf.pages) = (IF multiplePages THEN Len(pages) ELSE 1)
     /\ \A i \in 1..Len(pdf.pages) : pdf.pages[i].image = imageFileNames[1]

\* C2: a page that takes the "Skipping" branch is not emitted: no page size,
\* no drawing and no showPage is issued for it, so no finished page of the
\* canvas is a skipped page; the call goes on with the next page.
C2_SkippedNotEmitted ==
  \A i \in 1..Len(pdf.pages) : ~pdf.pages[i].skipped

\* C3: the image of page i is imageFileNames[i] when there is one and the
\* last image otherwise; without command-line image, a page whose title
\* names a file (noPictureFromHocr off) gets that image as its image and as
\* the source of its width and height, and the page is processed on; with
\* neither, the page has no image.
C3_ImageSelection ==
  /\ (InBody /\ imageFileNames # <<>>)
     => imageFileName = (IF page_count <= Len(imageFileNames)
                         THEN imageFileNames[page_count]
                         ELSE imageFileNames[Len(imageFileNames)])
  /\ (page # 0 /\ imageFileNames = <<>> /\ ~noPictureFromHocr
        /\ parse_element_title(CurrentPage).kind = "file"
        /\ pc \in {"compose", "showPage", "failed"})
     => LET ref == _setup_image(parse_element_title(CurrentPage).file)
        IN ref.raises \/ (pc # "failed" /\ im = ref.im)
  /\ (Resolved /\ imageFileNames = <<>>
        /\ (page = 0 \/ noPictureFromHocr
            \/ parse_element_title(CurrentPage).kind # "file"))
     => im = None

\* C4: a page or text element whose title is present and matches neither
\* pattern is treated as having no bbox and no image reference: nothing is
\* raised for it (has_key on the missing parse result raises
\* AttributeError).
C4_MalformedTitleTolerated ==
  (page # 0 /\ HasMalformedTitle(CurrentPage)) => error # "AttributeError"

\* C5: for a page that is not skipped, ocr_dpi is positive in both
\* components when a text element is divided by it, and nothing divides by
\* zero.
C5_DpiPositive ==
  /\ error # "ZeroDivisionError"
  /\ (pc = "showPage" /\ ~skipped /\ page # 0 /\ HasTextElement(CurrentPage))
     => (RatPositive(ocr_dpi[1]) /\ RatPositive(ocr_dpi[2]))

\* C6: with an hOCR document and multiplePages on, when the pages are used
\* up while images remain, the loop stops at the first index without page:
\* no page is composed and no page element is dereferenced there.
C6_StopsWithoutPage ==
  (hocr /\ multiplePages /\ Len(imageFileNames) > Len(pages)
     /\ page_count > Len(pages))
  => /\ pdf.cur = <<>>
     /\ error # "AttributeError"
     /\ \A i \in 1..Len(pdf.pages) : pdf.pages[i].index <= Len(pages)
\* The extent the cascade of C7 gives for dimension d (1 width, 2 height):
\* the page bbox extent when it is not zero, else the size of the given
\* image when there is one, else the maximum of the text extent.
CascadeExtent(d, image) ==
  LET e == PageBox[d + 2] - PageBox[d]
  IN IF e # 0 THEN e
     ELSE IF image # None THEN image[1].size[d]
     ELSE TextBox[d + 2]

\* a page without bbox and without text extent
NoBoxNoText ==
  /\ page # 0
  /\ parse_element_title(CurrentPage).kind # "bbox"
  /\ TextBox = <<0, 0, 0, 0>>
\* the command-line image of the page is 900x1200 and carries no resolution
Image900x1200NoDpi ==
  /\ imageFileName \in DOMAIN Files
  /\ Files[imageFileName].readable
  /\ Files[imageFileName].size = <<900, 1200>>
  /\ Files[imageFileName].dpi = None

\* C7 as claimed: the OCR extent is the page bbox extent when not zero, else
\* the pixel size of the page's image when any image is present
\* (command-line or named by the title), else the text extent; a page with a
\* 900x1200 image without resolution, without bbox and without text extent
\* is not skipped and measures 3.0 x 4.0.
C7_CascadeAnyImage ==
  /\ (Resolved /\ page # 0)
     => /\ ocrwidth = CascadeExtent(1, IF im # None THEN im ELSE im_ocr)
        /\ ocrheight = CascadeExtent(2, IF im # None THEN im ELSE im_ocr)
  /\ (pc = "showPage" /\ NoBoxNoText /\ Image900x1200NoDpi)
     => /\ ~skipped
        /\ RatEq(width, Rat(3, 1))
        /\ RatEq(height, Rat(4, 1))

\* C7 as amended: the image of the cascade is the image the page title
\* names, when that image was loaded (im_ocr), not the command-line image;
\* a page without bbox and without text extent whose title names a 900x1200
\* image that was loaded, with a command-line image without resolution, is
\* not skipped and measures 3.0 x 4.0.
C7_CascadeTitleImage ==
  /\ (Resolved /\ page # 0)
     => /\ ocrwidth = CascadeExtent(1, im_ocr)
        /\ ocrheight = CascadeExtent(2, im_ocr)
  /\ (pc = "showPage" /\ NoBoxNoText /\ Image900x1200NoDpi
        /\ im_ocr # None /\ im_ocr[1].size = <<900, 1200>>)
     => /\ ~skipped
        /\ RatEq(width, Rat(3, 1))
        /\ RatEq(height, Rat(4, 1))

\* The page of C7's scenario has been composed at 3.0 x 4.0.
C7_Witness ==
  /\ pc = "showPage" /\ NoBoxNoText /\ Image900x1200NoDpi
  /\ im_ocr # None /\ im_ocr[1].size = <<900, 1200>>
  /\ ~skipped
  /\ width = Rat(900, AssumedOcrDpi) /\ height = Rat(1200, AssumedOcrDpi)

\* C8: without hOCR document, a page whose image carries no resolution is
\* not skipped: it is emitted at pixels/96 (the branch of lines 321-326).
C8_FallbackDpi ==
  (pc = "showPage" /\ ~hocr /\ imageFileName \in DOMAIN Files
     /\ Files[imageFileName].dpi = None)
  => /\ ~skipped
     /\ RatEq(width, Rat(Files[imageFileName].size[1], FallbackDpi))
     /\ RatEq(height, Rat(Files[imageFileName].size[2], FallbackDpi))

\* C9: the page loop ends for every input: the call returns (the document
\* is saved) or raises.
C9_Terminates == <>Terminated

\* C10: the document is saved at most once, only when the loop has ended
\* (nothing is put on the canvas after it), and never in a call that raised.
C10_SavedOnceAtEnd ==
  /\ pdf.saved <= 1
  /\ pdf.saved = 1 => (pc = "done" /\ pdf.cur = <<>>)
  /\ pc = "failed" => pdf.saved = 0

\* A call with two finished pages has saved the document.
C10_Witness ==
  pc = "done" /\ pdf.saved = 1 /\ Len(pdf.pages) >= 2 /\ error = ""

====
